---- MODULE Spec2Model ----
(***************************************************************************)
(* Meraki webhook alert processor (src/lambda.py): the Bedrock invocation  *)
(* engine, the model fallback cascade and the response normalizer.         *)
(*                                                                         *)
(* Python values are modelled as follows.                                  *)
(*   str    a sequence of units.  A unit is a TLA+ string: either one      *)
(*          character ("{", "j", " ", ...) or an unsplittable chunk of      *)
(*          characters ("severity", "low", "true", "5", ...).  Slices,     *)
(*          startswith and strip count units.                              *)
(*   JSON   a tagged record [t |-> kind, <payload>], kind one of "str",    *)
(*          "num", "bool", "null", "list", "obj", the payload in a field   *)
(*          of its own (s, n, b, l, d); the payload of an "obj" is a       *)
(*          function from keys (str) to JSON values.                       *)
(*   error  a record [type |-> exception class, msg |-> str(e)].           *)
(***************************************************************************)
EXTENDS Integers, Sequences, FiniteSets, TLC

\* ------------------------------------------------------------------------
\* Python str helpers
\* ------------------------------------------------------------------------

\* Build a str from one chunk; the empty chunk is the empty str.
S(c) == IF c = "" THEN << >> ELSE << c >>

Whitespace == {" ", "\n"}

RECURSIVE LStrip(_)
LStrip(s) ==
    IF s # << >> /\ Head(s) \in Whitespace THEN LStrip(Tail(s)) ELSE s

RECURSIVE RStrip(_)
RStrip(s) ==
    IF s # << >> /\ s[Len(s)] \in Whitespace
    THEN RStrip(SubSeq(s, 1, Len(s) - 1))
    ELSE s

\* str.strip()
Strip(s) == RStrip(LStrip(s))

\* str.startswith(prefix)
StartsWith(s, prefix) ==
    /\ Len(s) >= Len(prefix)
    /\ SubSeq(s, 1, Len(prefix)) = prefix

\* s[a:-b] for a >= 0, b > 0 (Python slice, 0-based start, b units cut off
\* the end; empty when the bounds cross).
Slice(s, a, b) == SubSeq(s, a + 1, Len(s) - b)

\* needle in s, for a needle that is a single unit
Contains(s, needle) == \E i \in 1..Len(s) : s[i] = needle

\* str.upper(), unit by unit
UpperUnit(u) ==
    CASE u = "low" -> "LOW"
      [] u = "Low" -> "LOW"
      [] u = "high" -> "HIGH"
      [] u = "critical" -> "CRITICAL"
      [] u = "medium" -> "MEDIUM"
      [] u = "info" -> "INFO"
      [] u = "urgent" -> "URGENT"
      [] u = "j" -> "J"
      [] u = "s" -> "S"
      [] u = "o" -> "O"
      [] u = "n" -> "N"
      [] OTHER -> u

Upper(s) == [i \in 1..Len(s) |-> UpperUnit(s[i])]

\* ------------------------------------------------------------------------
\* JSON values
\* ------------------------------------------------------------------------

JStr(s) == [t |-> "str", s |-> s]
JNum(n) == [t |-> "num", n |-> n]
JBool(b) == [t |-> "bool", b |-> b]
JNull == [t |-> "null"]
JList(l) == [t |-> "list", l |-> l]
JObj(d) == [t |-> "obj", d |-> d]

EmptyDict == [k \in {} |-> JNull]

\* Python truthiness: bool(x)
Truthy(x) ==
    CASE x.t = "str" -> x.s # << >>
      [] x.t = "num" -> x.n # 0
      [] x.t = "bool" -> x.b
      [] x.t = "null" -> FALSE
      [] x.t = "list" -> x.l # << >>
      [] x.t = "obj" -> DOMAIN x.d # {}

\* d[k] = x on a dict
DictSet(d, k, x) == [j \in DOMAIN d \cup {k} |-> IF j = k THEN x ELSE d[j]]

\* ------------------------------------------------------------------------
\* json.loads on a str: a recursive-descent parser over units
\* ------------------------------------------------------------------------

Quote == "\""

\* Number lexemes and their values
NumberUnits == {"0", "1", "5"}

NumberValue(u) == CASE u = "0" -> 0 [] u = "1" -> 1 [] u = "5" -> 5

ParseFail == [ok |-> FALSE, v |-> JNull, i |-> 0]

ParseOk(x, i) == [ok |-> TRUE, v |-> x, i |-> i]

\* The unit at position i, "" past the end
At(s, i) == IF i >= 1 /\ i <= Len(s) THEN s[i] ELSE ""

RECURSIVE SkipWs(_, _)
SkipWs(s, i) == IF At(s, i) \in Whitespace THEN SkipWs(s, i + 1) ELSE i

\* A string literal opening at position i: runs to the next quote; a raw
\* newline inside a literal is a control character and is rejected.
ParseString(s, i) ==
    IF \E j \in (i + 1)..Len(s) : s[j] = Quote
    THEN LET j == CHOOSE k \in (i + 1)..Len(s) :
                    /\ s[k] = Quote
                    /\ \A m \in (i + 1)..(k - 1) : s[m] # Quote
             body == SubSeq(s, i + 1, j - 1)
         IN  IF Contains(body, "\n") THEN ParseFail ELSE ParseOk(JStr(body), j + 1)
    ELSE ParseFail

RECURSIVE ParseValue(_, _)
RECURSIVE ParseElements(_, _, _)
RECURSIVE ParseMembers(_, _, _)

\* Elements of an array, the first one starting at i; acc holds those read.
ParseElements(s, i, acc) ==
    LET r == ParseValue(s, i)
        j == SkipWs(s, r.i)
    IN  IF ~r.ok THEN ParseFail
        ELSE IF At(s, j) = "]" THEN ParseOk(JList(Append(acc, r.v)), j + 1)
        ELSE IF At(s, j) = "," THEN ParseElements(s, SkipWs(s, j + 1), Append(acc, r.v))
        ELSE ParseFail

\* Members of an object, the first key starting at i; a repeated key keeps
\* the last value.
ParseMembers(s, i, acc) ==
    IF At(s, i) # Quote THEN ParseFail
    ELSE LET k == ParseString(s, i)
             c == SkipWs(s, k.i)
             r == ParseValue(s, SkipWs(s, c + 1))
             j == SkipWs(s, r.i)
         IN  IF ~k.ok \/ At(s, c) # ":" THEN ParseFail
             ELSE IF ~r.ok THEN ParseFail
             ELSE IF At(s, j) = "}" THEN ParseOk(JObj(DictSet(acc, k.v.s, r.v)), j + 1)
             ELSE IF At(s, j) = ","
                  THEN ParseMembers(s, SkipWs(s, j + 1), DictSet(acc, k.v.s, r.v))
             ELSE ParseFail

ParseValue(s, i) ==
    LET u == At(s, i)
    IN  CASE u = Quote -> ParseString(s, i)
          [] u = "{" ->
                LET j == SkipWs(s, i + 1)
                IN  IF At(s, j) = "}" THEN ParseOk(JObj(EmptyDict), j + 1)
                    ELSE ParseMembers(s, j, EmptyDict)
          [] u = "[" ->
                LET j == SkipWs(s, i + 1)
                IN  IF At(s, j) = "]" THEN ParseOk(JList(<< >>), j + 1)
                    ELSE ParseElements(s, j, << >>)
          [] u = "true" -> ParseOk(JBool(TRUE), i + 1)
          [] u = "false" -> ParseOk(JBool(FALSE), i + 1)
          [] u = "null" -> ParseOk(JNull, i + 1)
          [] u \in NumberUnits -> ParseOk(JNum(NumberValue(u)), i + 1)
          [] OTHER -> ParseFail

\* json.loads(s): one value, surrounded by optional whitespace, and nothing
\* else; ok = FALSE stands for json.JSONDecodeError.
JsonLoads(s) ==
    LET r == ParseValue(s, SkipWs(s, 1))
    IN  IF r.ok /\ SkipWs(s, r.i) = Len(s) + 1
        THEN [ok |-> TRUE, v |-> r.v]
        ELSE [ok |-> FALSE, v |-> JNull]


\* ------------------------------------------------------------------------
\* Results of a call: a returned value or a raised exception
\* ------------------------------------------------------------------------

Err(type, msg) == [type |-> type, msg |-> msg]

NoErr == Err("", << >>)

Returned(x) == [status |-> "return", value |-> x, err |-> NoErr]

Raised(e) == [status |-> "raise", value |-> JNull, err |-> e]

\* ------------------------------------------------------------------------
\* Response normalizer
\* ------------------------------------------------------------------------

RequiredFields ==
    { S("severity"), S("category"), S("summary"), S("impact"),
      S("recommendations"), S("requires_immediate_action"),
      S("estimated_resolution_time") }

\* _create_fallback_analysis with the severity of the defaults dict
CreateFallbackAnalysisMedium(error_msg) ==
    JObj([k \in RequiredFields |->
        CASE k = S("severity") -> JStr(S("MEDIUM"))
          [] k = S("category") -> JStr(S("System Error"))
          [] k = S("summary") ->
                JStr(<< "Alert received but analysis failed: " >> \o error_msg)
          [] k = S("impact") ->
                JStr(S("Unable to determine impact - manual review required"))
          [] k = S("recommendations") ->
                JList(<< JStr(S("Manual review required")),
                         JStr(S("Check Meraki dashboard for details")),
                         JStr(S("Contact system administrator if issues persist")) >>)
          [] k = S("requires_immediate_action") -> JBool(TRUE)
          [] k = S("estimated_resolution_time") -> JStr(S("Unknown"))])

\* _create_fallback_analysis(error_msg)
CreateFallbackAnalysis(error_msg) ==
    JObj([k \in RequiredFields |->
        CASE k = S("severity") -> JStr(S("HIGH"))
          [] k = S("category") -> JStr(S("System Error"))
          [] k = S("summary") ->
                JStr(<< "Alert received but analysis failed: " >> \o error_msg)
          [] k = S("impact") ->
                JStr(S("Unable to determine impact - manual review required"))
          [] k = S("recommendations") ->
                JList(<< JStr(S("Manual review required")),
                         JStr(S("Check Meraki dashboard for details")),
                         JStr(S("Contact system administrator if issues persist")) >>)
          [] k = S("requires_immediate_action") -> JBool(TRUE)
          [] k = S("estimated_resolution_time") -> JStr(S("Unknown"))])

\* The defaults dict of _validate_analysis_response
defaults ==
    [k \in RequiredFields |->
        CASE k = S("severity") -> JStr(S("MEDIUM"))
          [] k = S("category") -> JStr(S("Unknown"))
          [] k = S("summary") -> JStr(S("Alert received but analysis incomplete"))
          [] k = S("impact") -> JStr(S("Unable to determine impact"))
          [] k = S("recommendations") ->
                JList(<< JStr(S("Manual review required")),
                         JStr(S("Check Meraki dashboard")) >>)
          [] k = S("requires_immediate_action") -> JBool(TRUE)
          [] k = S("estimated_resolution_time") -> JStr(S("Unknown"))]

valid_severities == { S("CRITICAL"), S("HIGH"), S("MEDIUM"), S("LOW"), S("INFO") }

\* FillDefaults that fills in the missing keys only
FillDefaultsMissingOnly(d) ==
    [k \in DOMAIN d \cup DOMAIN defaults |-> IF k \in DOMAIN d THEN d[k] ELSE defaults[k]]

\* The loop over defaults.items(): a key that is missing or whose value is
\* falsy gets the default.
FillDefaults(d) ==
    [k \in DOMAIN d \cup DOMAIN defaults |->
        IF k \in DOMAIN defaults /\ (k \notin DOMAIN d \/ ~Truthy(d[k]))
        THEN defaults[k]
        ELSE d[k]]

\* The severity check: response['severity'].upper() not in valid_severities
CheckSeverity(d) ==
    IF Upper(d[S("severity")].s) \notin valid_severities
    THEN DictSet(d, S("severity"), JStr(S("MEDIUM")))
    ELSE d

\* _validate_analysis_response(response).  On a value that is not a dict the
\* membership test or the item access of the loop raises TypeError; a
\* severity that is not a str has no upper() and raises AttributeError.
ValidateAnalysisResponse(response) ==
    IF response.t # "obj"
    THEN Raised(Err("TypeError",
                    << "'", response.t, "' value does not support dict item access" >>))
    ELSE LET filled == FillDefaults(response.d)
         IN  IF filled[S("severity")].t # "str"
             THEN Raised(Err("AttributeError",
                             << "'", filled[S("severity")].t,
                                "' object has no attribute 'upper'" >>))
             ELSE Returned(JObj(CheckSeverity(filled)))

\* The unit that stands for the backtick character
Backtick == "<backtick>"

FenceJson == << Backtick, Backtick, Backtick, "j", "s", "o", "n" >>

Fence == << Backtick, Backtick, Backtick >>

\* The clean-up of _parse_bedrock_response: strip, then cut a leading fence
\* and the last three units.
CleanResponseText(response_text) ==
    LET text == Strip(response_text)
    IN  IF StartsWith(text, FenceJson) THEN Strip(Slice(text, 7, 3))
        ELSE IF StartsWith(text, Fence) THEN Strip(Slice(text, 3, 3))
        ELSE text

\* _parse_bedrock_response without the except clause
ParseBedrockResponseUncaught(response_text) ==
    LET parsed == JsonLoads(CleanResponseText(response_text))
    IN  IF ~parsed.ok
        THEN Raised(Err("JSONDecodeError", S("Expecting value")))
        ELSE ValidateAnalysisResponse(parsed.v)

\* _parse_bedrock_response(response_text): only json.JSONDecodeError is
\* caught; what _validate_analysis_response raises goes to the caller.
ParseBedrockResponse(response_text) ==
    LET parsed == JsonLoads(CleanResponseText(response_text))
    IN  IF ~parsed.ok
        THEN Returned(CreateFallbackAnalysis(S("JSON parsing failed")))
        ELSE ValidateAnalysisResponse(parsed.v)


\* ------------------------------------------------------------------------
\* Model replies: the raw texts handed to the normalizer
\* ------------------------------------------------------------------------

\* json.dumps of a JSON value (", " and ": " separators), keys in KeyOrder
KeyOrder ==
    << S("severity"), S("category"), S("summary"), S("impact"),
       S("recommendations"), S("requires_immediate_action"),
       S("estimated_resolution_time"), S("confidence") >>

NumberUnit(n) == CASE n = 0 -> "0" [] n = 1 -> "1" [] n = 5 -> "5"

RECURSIVE JsonDumps(_)
RECURSIVE DumpsElements(_, _)
RECURSIVE DumpsMembers(_, _, _)

DumpsElements(l, i) ==
    IF i > Len(l) THEN << >>
    ELSE (IF i > 1 THEN << ",", " " >> ELSE << >>)
         \o JsonDumps(l[i]) \o DumpsElements(l, i + 1)

DumpsMembers(d, i, first) ==
    IF i > Len(KeyOrder) THEN << >>
    ELSE IF KeyOrder[i] \notin DOMAIN d THEN DumpsMembers(d, i + 1, first)
    ELSE (IF first THEN << >> ELSE << ",", " " >>)
         \o << Quote >> \o KeyOrder[i] \o << Quote, ":", " " >>
         \o JsonDumps(d[KeyOrder[i]]) \o DumpsMembers(d, i + 1, FALSE)

JsonDumps(x) ==
    CASE x.t = "str" -> << Quote >> \o x.s \o << Quote >>
      [] x.t = "num" -> << NumberUnit(x.n) >>
      [] x.t = "bool" -> IF x.b THEN << "true" >> ELSE << "false" >>
      [] x.t = "null" -> << "null" >>
      [] x.t = "list" -> << "[" >> \o DumpsElements(x.l, 1) \o << "]" >>
      [] x.t = "obj" -> << "{" >> \o DumpsMembers(x.d, 1, TRUE) \o << "}" >>

\* A complete reply in the format the prompt asks for
CompleteReply ==
    [k \in RequiredFields |->
        CASE k = S("severity") -> JStr(S("CRITICAL"))
          [] k = S("category") -> JStr(S("Connectivity"))
          [] k = S("summary") -> JStr(S("Appliance went offline"))
          [] k = S("impact") -> JStr(S("Site has no uplink"))
          [] k = S("recommendations") ->
                JList(<< JStr(S("Check power")), JStr(S("Check uplink")) >>)
          [] k = S("requires_immediate_action") -> JBool(TRUE)
          [] k = S("estimated_resolution_time") -> JStr(S("1 hour"))]

Absent == [t |-> "absent"]

SeverityValues ==
    { JStr(S(x)) : x \in { "CRITICAL", "HIGH", "MEDIUM", "LOW", "INFO",
                           "low", "Low", "info", "urgent", "URGENT", "" } }
    \cup { JNum(5), JNum(0), JNull, JBool(TRUE), JBool(FALSE),
           JList(<< JStr(S("HIGH")) >>), JObj(EmptyDict) }

\* What a reply may carry in field k instead of CompleteReply[k]
FieldValues(k) ==
    { Absent } \cup
    ( CASE k = S("severity") -> SeverityValues
        [] k = S("recommendations") ->
              { JList(<< >>), JList(<< JStr(S("Reboot")) >>), JNull, JStr(S("Reboot")) }
        [] k = S("requires_immediate_action") ->
              { JBool(FALSE), JBool(TRUE), JNull, JNum(0), JStr(S("yes")) }
        [] k = S("confidence") -> { JNum(5), JNum(0), JStr(S("high")) }
        [] OTHER -> { JStr(<< >>), JStr(S("Other")), JNull, JNum(0), JNum(5) } )

AllFieldValues == UNION { FieldValues(KeyOrder[i]) : i \in 1..Len(KeyOrder) }

AllKeys == { KeyOrder[i] : i \in 1..Len(KeyOrder) }

\* The most fields of a reply that differ from the base reply
MaxOverrides == 2

Overrides ==
    UNION { { f \in [K -> AllFieldValues] : \A k \in K : f[k] \in FieldValues(k) } :
            K \in { K \in SUBSET AllKeys : Cardinality(K) <= MaxOverrides } }

\* base with the fields of o replaced (or removed, for Absent)
Override(base, o) ==
    LET keys == { k \in DOMAIN base \cup DOMAIN o :
                    IF k \in DOMAIN o THEN o[k] # Absent ELSE TRUE }
    IN  [k \in keys |-> IF k \in DOMAIN o THEN o[k] ELSE base[k]]

ReplyObjects == { JObj(Override(base, o)) : base \in { CompleteReply, EmptyDict }, o \in Overrides }

\* Replies that are JSON but not an object
NonObjects ==
    { JList(<< >>), JList(<< JStr(S("severity")) >>), JNum(5), JNum(0),
      JStr(S("severity")), JStr(<< >>), JNull, JBool(TRUE), JBool(FALSE) }

\* Texts that are not JSON
NotJson ==
    { << >>, << "not", " ", "j", "s", "o", "n" >>, << "{" >>,
      << "{", Quote, "severity", Quote, ":", " ", Quote, "low", Quote >>,
      << "{", "}", " ", "{", "}" >>, << "{", Quote, "severity", Quote, "}" >>,
      << "[", "5", ",", "]" >>, << "Here", " ", "{", "}" >> }

\* A few documents that are put into every wrapper
WrappedDocs ==
    { JsonDumps(JObj(CompleteReply)),
      JsonDumps(JObj(DictSet(EmptyDict, S("severity"), JStr(S("low"))))),
      JsonDumps(JObj(EmptyDict)), JsonDumps(JNum(5)), JsonDumps(JList(<< >>)),
      << "not", " ", "j", "s", "o", "n" >>, << >> }

Leads == { << >>, << " " >>, << "\n", " " >> }

Opens == { << >>, Fence, FenceJson, Fence \o << "p", "y" >>, Fence \o << "J", "S", "O", "N" >> }

Separators == { << >>, << "\n" >> }

Closes == { << >>, Fence, << ".", ".", "." >>, << "\n" >> \o Fence, << Backtick >> }

Trails == { << >>, << "\n" >> }

WrappedTexts ==
    { lead \o open \o sep \o doc \o close \o trail :
        lead \in Leads, open \in Opens, sep \in Separators, doc \in WrappedDocs,
        close \in Closes, trail \in Trails }

RawTexts ==
    { JsonDumps(x) : x \in ReplyObjects \cup NonObjects } \cup NotJson \cup WrappedTexts

\* ------------------------------------------------------------------------
\* Configuration: MerakiAlertProcessor.__init__
\* ------------------------------------------------------------------------

None == "<None>"

Sonnet4 == "anthropic.claude-sonnet-4-20250514-v1:0"
Opus4 == "anthropic.claude-opus-4-20250514-v1:0"
Sonnet37 == "anthropic.claude-3-7-sonnet-20250219-v1:0"
Sonnet35v2 == "anthropic.claude-3-5-sonnet-20241022-v2:0"
Sonnet35 == "anthropic.claude-3-5-sonnet-20240620-v1:0"
Sonnet3 == "anthropic.claude-3-sonnet-20240229-v1:0"
Haiku3 == "anthropic.claude-3-haiku-20240307-v1:0"
Instant == "anthropic.claude-instant-v1"

\* self.fallback_models
FallbackModels ==
    << Sonnet4, Opus4, Sonnet37, Sonnet35v2, Sonnet35, Sonnet3, Haiku3, Instant >>

\* The environment variable that feeds each entry of self.cross_region_models
ProfileEnvVar ==
    [m \in { Sonnet4, Sonnet37, Sonnet35v2, Sonnet35, Sonnet3, Haiku3 } |->
        CASE m = Sonnet4 -> "BEDROCK_CLAUDE4_SONNET_PROFILE_ARN"
          [] m = Sonnet37 -> "BEDROCK_CLAUDE37_SONNET_PROFILE_ARN"
          [] m = Sonnet35v2 -> "BEDROCK_CLAUDE35_SONNET_V2_PROFILE_ARN"
          [] m = Sonnet35 -> "BEDROCK_CLAUDE35_SONNET_PROFILE_ARN"
          [] m = Sonnet3 -> "BEDROCK_CLAUDE3_SONNET_PROFILE_ARN"
          [] m = Haiku3 -> "BEDROCK_CLAUDE3_HAIKU_PROFILE_ARN"]

ProfileEnvVars == { ProfileEnvVar[m] : m \in DOMAIN ProfileEnvVar }

\* The attribute of the processor that holds the address of each model
ProfileAttribute ==
    [m \in DOMAIN ProfileEnvVar |->
        CASE m = Sonnet4 -> "claude4_sonnet_profile_arn"
          [] m = Sonnet37 -> "claude37_sonnet_profile_arn"
          [] m = Sonnet35v2 -> "claude35_sonnet_v2_profile_arn"
          [] m = Sonnet35 -> "claude35_sonnet_profile_arn"
          [] m = Sonnet3 -> "claude3_sonnet_profile_arn"
          [] m = Haiku3 -> "claude3_haiku_profile_arn"]

\* A variable operators set for Claude 4 Opus; __init__ does not read it
OpusProfileEnvVar == "BEDROCK_CLAUDE4_OPUS_PROFILE_ARN"

\* The variables of an environment
EnvVars == ProfileEnvVars \cup { OpusProfileEnvVar }

\* The profile ARN an operator would configure in a variable
ArnFor(var) ==
    CASE var = "BEDROCK_CLAUDE4_SONNET_PROFILE_ARN" ->
            "arn:aws:bedrock:us-east-1::inference-profile/us.anthropic.claude-sonnet-4-20250514-v1:0"
      [] var = "BEDROCK_CLAUDE37_SONNET_PROFILE_ARN" ->
            "arn:aws:bedrock:us-east-1::inference-profile/us.anthropic.claude-3-7-sonnet-20250219-v1:0"
      [] var = "BEDROCK_CLAUDE35_SONNET_V2_PROFILE_ARN" ->
            "arn:aws:bedrock:us-east-1::inference-profile/us.anthropic.claude-3-5-sonnet-20241022-v2:0"
      [] var = "BEDROCK_CLAUDE35_SONNET_PROFILE_ARN" ->
            "arn:aws:bedrock:us-east-1::inference-profile/us.anthropic.claude-3-5-sonnet-20240620-v1:0"
      [] var = "BEDROCK_CLAUDE3_SONNET_PROFILE_ARN" ->
            "arn:aws:bedrock:us-east-1::inference-profile/us.anthropic.claude-3-sonnet-20240229-v1:0"
      [] var = "BEDROCK_CLAUDE3_HAIKU_PROFILE_ARN" ->
            "arn:aws:bedrock:us-east-1::inference-profile/us.anthropic.claude-3-haiku-20240307-v1:0"
      [] var = "BEDROCK_CLAUDE4_OPUS_PROFILE_ARN" ->
            "arn:aws:bedrock:us-east-1::inference-profile/us.anthropic.claude-opus-4-20250514-v1:0"

\* The most profile variables that hold an ARN in one environment
MaxProfiles == 1

\* The environment with the two Claude 4 profiles set
Claude4Environment ==
    [v \in EnvVars |->
        IF v \in { ProfileEnvVar[Sonnet4], OpusProfileEnvVar } THEN "arn" ELSE None]

\* Environments: each profile variable unset (None) or holding an ARN, the
\* environments with one variable set to the empty string, and the one with
\* the two Claude 4 profiles
Environments ==
    { env \in [EnvVars -> { None, "arn" }] :
        /\ env[OpusProfileEnvVar] = None
        /\ Cardinality({ v \in ProfileEnvVars : env[v] # None }) <= MaxProfiles }
    \cup { [v \in EnvVars |-> IF v = w THEN "" ELSE None] : w \in ProfileEnvVars }
    \cup { Claude4Environment }

\* os.environ.get(var)
EnvironGet(env, var) == IF env[var] = "arn" THEN ArnFor(var) ELSE env[var]

\* Values of BEDROCK_MODEL_ID: unset (the default), a model late in the
\* fallback list, a model outside the list
ModelIdChoices == { Sonnet4, Haiku3, "amazon.titan-text-express-v1" }

\* dict.get(key): None when the key is missing
DictGet(d, k) == IF k \in DOMAIN d THEN d[k] ELSE None

\* ------------------------------------------------------------------------
\* The transport: bedrock_runtime.invoke_model
\* ------------------------------------------------------------------------

\* str(e) of the errors the transport raises
RoutingMessage ==
    << "An error occurred (ValidationException) when calling the InvokeModel operation: ",
       "inference-profile", " is not valid" >>

ThrottlingMessage ==
    << "An error occurred (ThrottlingException) when calling the InvokeModel operation: ",
       "Too many requests" >>

TransportErrors ==
    { Err("ClientError", RoutingMessage),
      Err("ClientError", ThrottlingMessage),
      Err("Exception", << "inference-profile", " error" >>) }

\* Reply bodies after json.loads: the envelope {"content": [{"text": ...}]}
Envelope(text) ==
    JObj(DictSet(EmptyDict, S("content"),
        JList(<< JObj(DictSet(EmptyDict, S("text"), JStr(text))) >>)))

EmptyEnvelope == JObj(DictSet(EmptyDict, S("content"), JList(<< >>)))

\* The texts models answer with in the cascade
ReplyTexts ==
    { JsonDumps(JObj(CompleteReply)),
      FenceJson \o << "\n" >> \o
        JsonDumps(JObj(DictSet(EmptyDict, S("severity"), JStr(S("low")))))
        \o << "\n" >> \o Fence,
      << "not", " ", "j", "s", "o", "n" >>,
      JsonDumps(JList(<< >>)) }

ResponseBodies == { Envelope(text) : text \in ReplyTexts } \cup { EmptyEnvelope }

TransportOutcomes ==
    { [kind |-> "error", err |-> err, body |-> JNull] : err \in TransportErrors }
    \cup { [kind |-> "ok", err |-> NoErr, body |-> b] : b \in ResponseBodies }

\* ExtractText that takes an envelope without a content block as an empty
\* text
ExtractTextOrEmpty(response_body) ==
    IF response_body.t = "obj"
       /\ S("content") \in DOMAIN response_body.d
       /\ response_body.d[S("content")].t = "list"
       /\ response_body.d[S("content")].l # << >>
       /\ response_body.d[S("content")].l[1].t = "obj"
       /\ S("text") \in DOMAIN response_body.d[S("content")].l[1].d
    THEN Returned(response_body.d[S("content")].l[1].d[S("text")])
    ELSE Returned(JStr(<< >>))

\* response_body['content'][0]['text']
ExtractText(response_body) ==
    IF response_body.t # "obj" THEN Raised(Err("TypeError", S("envelope is not a dict")))
    ELSE IF S("content") \notin DOMAIN response_body.d
         THEN Raised(Err("KeyError", S("'content'")))
    ELSE LET content == response_body.d[S("content")]
         IN  IF content.t # "list"
             THEN Raised(Err("TypeError", S("content is not a list")))
             ELSE IF content.l = << >>
                  THEN Raised(Err("IndexError", S("list index out of range")))
             ELSE IF content.l[1].t # "obj"
                  THEN Raised(Err("TypeError", S("content block is not a dict")))
             ELSE IF S("text") \notin DOMAIN content.l[1].d
                  THEN Raised(Err("KeyError", S("'text'")))
             ELSE Returned(content.l[1].d[S("text")])

\* The tail of _invoke_bedrock_model after a successful transport call
HandleResponse(response_body) ==
    LET text == ExtractText(response_body)
    IN  IF text.status = "raise" THEN text
        ELSE IF text.value.t # "str"
             THEN Raised(Err("AttributeError", S("object has no attribute 'strip'")))
        ELSE ParseBedrockResponse(text.value.s)

\* ------------------------------------------------------------------------
\* Webhook payloads and the prompt
\* ------------------------------------------------------------------------

\* Units that the pattern [^\w\s\-\.\@\:\/] of _sanitize_for_prompt removes
UnsafeUnits == { ";", "{", "}", "[", "]", ",", Quote, Backtick }

max_length == 1000

RECURSIVE SanitizeForPrompt(_)
SanitizeForPrompt(data) ==
    CASE data.t = "str" ->
            LET sanitized == SelectSeq(data.s, LAMBDA u : u \notin UnsafeUnits)
            IN  JStr(SubSeq(sanitized, 1, IF Len(sanitized) < max_length
                                          THEN Len(sanitized) ELSE max_length))
      [] data.t = "obj" -> JObj([k \in DOMAIN data.d |-> SanitizeForPrompt(data.d[k])])
      [] data.t = "list" -> JList([i \in 1..Len(data.l) |-> SanitizeForPrompt(data.l[i])])
      [] OTHER -> data

\* dict.get(key, default)
DictGetOr(d, k, default) == IF k \in DOMAIN d THEN d[k] ELSE default

\* _create_analysis_prompt(webhook_data): the values the template is filled with
CreateAnalysisPrompt(webhook_data) ==
    [ alert_type |-> DictGetOr(webhook_data, S("alertType"), JStr(S("Unknown"))),
      organization |-> DictGetOr(webhook_data, S("organizationName"), JStr(S("Unknown"))),
      network |-> DictGetOr(webhook_data, S("networkName"), JStr(S("Unknown"))),
      alert_data |->
          SanitizeForPrompt(DictGetOr(webhook_data, S("alertData"), JObj(EmptyDict))) ]

Webhooks ==
    { [k \in { S("alertType"), S("organizationName"), S("networkName"), S("alertData") } |->
          CASE k = S("alertType") -> JStr(S("settings_changed"))
            [] k = S("organizationName") -> JStr(S("Acme"))
            [] k = S("networkName") -> JStr(S("HQ"))
            [] k = S("alertData") ->
                  JObj(DictSet(EmptyDict, S("name"), JStr(<< "ignore", ";", " ", "above" >>)))] }

max_tokens == 1000

\* request_body of _invoke_bedrock_model
RequestBody(prompt_) ==
    [ anthropic_version |-> "bedrock-2023-05-31",
      max_tokens |-> max_tokens,
      messages |-> << [role |-> "user", content |-> prompt_] >>,
      temperature |-> "0.1",
      top_p |-> "0.9" ]

\* ------------------------------------------------------------------------
\* State
\* ------------------------------------------------------------------------

VARIABLES
    environ,               \* os.environ when the processor was constructed
    profile_arns,          \* the self.*_profile_arn attributes, by name
    bedrock_model_id,      \* self.bedrock_model_id
    fallback_models,       \* self.fallback_models
    cross_region_models,   \* self.cross_region_models
    pc,                    \* where the processor is
    webhook_data,          \* the payload being analysed
    prompt,                \* the prompt of the running analysis
    candidate,             \* 0: the primary model; i > 0: fallback_models[i]
    e,                     \* the exception bound by the outer except clause
    last_error,            \* the exception logged last
    invoked,               \* the _invoke_bedrock_model calls of the cascade, in order
    invocation,            \* the running _invoke_bedrock_model call
    last_invoke,           \* the _invoke_bedrock_model call that ended last
    analysis_result,       \* what _analyze_alert_with_bedrock ended with
    response_text,         \* the argument of a _parse_bedrock_response call
    normalized,            \* what that call ended with
    event,                 \* the event of the running process_webhook call
    alert_info,            \* what _extract_alert_info returned
    notifications,         \* the notification channels tried, in order
    response,              \* what process_webhook returned
    threads                \* the locals of each of the concurrent analyses

vars ==
    << environ, profile_arns, bedrock_model_id, fallback_models, cross_region_models, pc, webhook_data,
       prompt, candidate, e, last_error, invoked, invocation, last_invoke,
       analysis_result, response_text, normalized, event, alert_info,
       notifications, response, threads >>

handler == << event, alert_info, notifications, response >>

config == << bedrock_model_id, fallback_models, cross_region_models >>

construction == << environ, profile_arns >>

NoResult == [status |-> "none", value |-> JNull, err |-> NoErr]

NoPrompt == CreateAnalysisPrompt(EmptyDict)

\* An _invoke_bedrock_model call: its model, the modelId and body of each
\* transport call made so far, the outcome of each, and how it ended
NewInvocation(model_id) ==
    [ model_id |-> model_id, targets |-> << >>, bodies |-> << >>,
      outcomes |-> << >>, result |-> NoResult ]

NoInvocation == NewInvocation(None)

\* The invocations that run at the same time on the one global processor
Invocations == { "a", "b" }

\* The locals of an _analyze_alert_with_bedrock call that has not begun:
\* where it is, its payload and prompt, the loop position, the exception
\* bound by the outer except clause, the _invoke_bedrock_model calls it
\* made, the modelId of each transport call, its return value, and whether
\* it ran while another one was under way
IdleThread ==
    [ pc |-> "idle", webhook_data |-> EmptyDict, prompt |-> NoPrompt, candidate |-> 0,
      e |-> NoErr, invoked |-> << >>, targets |-> << >>, result |-> NoResult,
      overlapped |-> FALSE ]

NoThreads == [i \in Invocations |-> IdleThread]

NoEvent == JNull

NoAlertInfo == EmptyDict

\* The return value of process_webhook: the status code and the fields of
\* the body (the timestamp left out)
Response(statusCode, error, message, alert_type, organization, network, analysis) ==
    [ statusCode |-> statusCode, error |-> error, message |-> message,
      alert_type |-> alert_type, organization |-> organization,
      network |-> network, analysis |-> analysis ]

NoResponse == Response(0, << >>, << >>, JNull, JNull, JNull, JNull)

\* __init__ under an environment
Construct(env, model_id_env) ==
    /\ environ = env
    /\ profile_arns =
          [a \in { ProfileAttribute[m] : m \in DOMAIN ProfileAttribute } |->
              EnvironGet(env, ProfileEnvVar[CHOOSE m \in DOMAIN ProfileAttribute :
                                               ProfileAttribute[m] = a])]
    /\ bedrock_model_id = model_id_env
    /\ fallback_models = FallbackModels
    /\ cross_region_models =
          [m \in DOMAIN ProfileAttribute |-> profile_arns[ProfileAttribute[m]]]

Idle ==
    /\ webhook_data = EmptyDict
    /\ prompt = NoPrompt
    /\ candidate = 0
    /\ e = NoErr
    /\ last_error = NoErr
    /\ invoked = << >>
    /\ invocation = NoInvocation
    /\ last_invoke = NoInvocation
    /\ analysis_result = NoResult
    /\ event = NoEvent
    /\ alert_info = NoAlertInfo
    /\ notifications = << >>
    /\ response = NoResponse
    /\ threads = NoThreads

Init ==
    /\ \E env \in Environments, m \in ModelIdChoices : Construct(env, m)
    /\ pc = "idle"
    /\ Idle
    /\ response_text = << >>
    /\ normalized = NoResult

\* ------------------------------------------------------------------------
\* The processor object
\* ------------------------------------------------------------------------

\* self: the attributes the analysis reads
Self ==
    [ bedrock_model_id |-> bedrock_model_id,
      fallback_models |-> fallback_models,
      cross_region_models |-> cross_region_models ]

\* The attributes of self are assigned
SelfBecomes(self) ==
    /\ bedrock_model_id' = self.bedrock_model_id
    /\ fallback_models' = self.fallback_models
    /\ cross_region_models' = self.cross_region_models

\* SelfAfterInvoke that makes a model that answered the primary model
SelfAfterInvokePromotes(self, model_id, result) ==
    IF result.status = "return" THEN [self EXCEPT !.bedrock_model_id = model_id] ELSE self

\* self after an _invoke_bedrock_model call made by the cascade has ended:
\* neither method assigns an attribute
SelfAfterInvoke(self, model_id, result) == self

\* SelfAfterRoutingFailure that drops the address that failed
SelfAfterRoutingFailureForgetsProfile(self, model_id) ==
    [self EXCEPT !.cross_region_models = DictSet(@, model_id, None)]

\* self when the except clause of _invoke_bedrock_model is entered: the
\* clause assigns no attribute
SelfAfterRoutingFailure(self, model_id) == self

\* ------------------------------------------------------------------------
\* Invocation engine: _invoke_bedrock_model
\* ------------------------------------------------------------------------

\* if inference_profile_arn: (None and "" are falsy)
HasProfile(inference_profile_arn) == inference_profile_arn \notin { None, "" }

\* FirstTarget that ignores the registry
FirstTargetDirect(registry, model_id) == model_id

\* The modelId of the first transport call
FirstTarget(registry, model_id) ==
    LET inference_profile_arn == DictGet(registry, model_id)
    IN  IF HasProfile(inference_profile_arn) THEN inference_profile_arn ELSE model_id

\* RetriesDirect without the test of the error text
RetriesDirectOnAnyClientError(inference_profile_arn, err) ==
    /\ err.type = "ClientError"
    /\ HasProfile(inference_profile_arn)

\* RetriesDirect without the test that an address is configured
RetriesDirectWithoutProfile(inference_profile_arn, err) ==
    /\ err.type = "ClientError"
    /\ Contains(err.msg, "inference-profile")

\* except ClientError as e: if inference_profile_arn and 'inference-profile' in str(e)
RetriesDirect(inference_profile_arn, err) ==
    /\ err.type = "ClientError"
    /\ HasProfile(inference_profile_arn)
    /\ Contains(err.msg, "inference-profile")

\* RetryTarget that calls the profile address again
RetryTargetSameAddress(inference_profile_arn, model_id) == inference_profile_arn

\* The modelId of the call made by the except clause
RetryTarget(inference_profile_arn, model_id) == model_id

\* The body= argument of the call made by the except clause
RetryBody(prompt_) == RequestBody(prompt_)

\* One more transport call written into the record of an invocation
WithCall(inv, target, body, outcome) ==
    [inv EXCEPT !.targets = Append(@, target),
                !.bodies = Append(@, body),
                !.outcomes = Append(@, outcome)]

\* HandleResponse, tabulated over the reply bodies of the model
HandledResponses == [body \in ResponseBodies |-> HandleResponse(body)]

\* How the invocation ends after a transport call that is not retried
ResultOf(outcome) ==
    IF outcome.kind = "ok" THEN HandledResponses[outcome.body] ELSE Raised(outcome.err)

\* ------------------------------------------------------------------------
\* Fallback orchestrator: _analyze_alert_with_bedrock
\* ------------------------------------------------------------------------

ExceptionClasses ==
    { "Exception", "ClientError", "TypeError", "AttributeError", "KeyError",
      "IndexError", "JSONDecodeError" }

\* Catches with the except clauses narrowed to the service error
CatchesClientErrorOnly(err) == err.type = "ClientError"

\* except Exception: the classes both except clauses of the cascade catch
Catches(err) == err.type \in ExceptionClasses

\* NextCandidate without the test that skips the primary model
NextCandidateNoSkip(models, primary, from) ==
    IF from + 1 <= Len(models) THEN from + 1 ELSE 0

\* NextCandidate that passes over the primary model at the head of the list
\* only
NextCandidateSkipsHead(models, primary, from) ==
    IF from = 0 /\ Len(models) >= 2 /\ models[1] = primary THEN 2
    ELSE IF from + 1 <= Len(models) THEN from + 1
    ELSE 0

\* The next index of the for loop, after index from, whose model is not
\* the primary; 0 when the loop is over
NextCandidate(models, primary, from) ==
    IF \E i \in (from + 1)..Len(models) : models[i] # primary
    THEN CHOOSE i \in (from + 1)..Len(models) :
            /\ models[i] # primary
            /\ \A j \in (from + 1)..(i - 1) : models[j] = primary
    ELSE 0

\* FallbackMessage taking the exception of the last candidate
FallbackMessageLatest(primary_error, latest_error) == latest_error.msg

\* The argument of the final _create_fallback_analysis call: str(e), e the
\* exception bound by the outer except clause
FallbackMessage(primary_error, latest_error) == primary_error.msg

\* An entry of invoked: the model and how the call ended ("running" until
\* then)
Call(model_id, status) == [model_id |-> model_id, status |-> status]

\* invoked with the status of its last entry set
Ended(calls, status) == [calls EXCEPT ![Len(calls)].status = status]

\* The invocation inv has ended: the cascade returns, raises or moves on
EndInvoke(inv) ==
    /\ last_invoke' = inv
    /\ SelfBecomes(SelfAfterInvoke(Self, inv.model_id, inv.result))
    /\ IF inv.result.status = "return" \/ ~Catches(inv.result.err)
       THEN /\ analysis_result' = inv.result
            /\ pc' = "done"
            /\ invocation' = NoInvocation
            /\ invoked' = Ended(invoked, inv.result.status)
            /\ UNCHANGED << candidate, e, last_error >>
       ELSE LET next == NextCandidate(fallback_models, bedrock_model_id, candidate)
                e1 == IF candidate = 0 THEN inv.result.err ELSE e
            IN  /\ e' = e1
                /\ last_error' = inv.result.err
                /\ IF next # 0
                   THEN /\ candidate' = next
                        /\ invoked' = Append(Ended(invoked, "raise"),
                                             Call(fallback_models[next], "running"))
                        /\ invocation' = NewInvocation(fallback_models[next])
                        /\ pc' = "invoke"
                        /\ UNCHANGED analysis_result
                   ELSE /\ analysis_result' =
                              Returned(CreateFallbackAnalysis(FallbackMessage(e1, inv.result.err)))
                        /\ pc' = "done"
                        /\ invocation' = NoInvocation
                        /\ invoked' = Ended(invoked, "raise")
                        /\ UNCHANGED candidate

\* _analyze_alert_with_bedrock is entered: the prompt is built and the
\* primary model is about to be called
AnalyzeAlertWithBedrock(w) ==
    /\ pc = "idle"
    /\ webhook_data' = w
    /\ prompt' = CreateAnalysisPrompt(w)
    /\ candidate' = 0
    /\ invoked' = << Call(bedrock_model_id, "running") >>
    /\ invocation' = NewInvocation(bedrock_model_id)
    /\ pc' = "invoke"
    /\ UNCHANGED << config, construction, threads, e, last_error, last_invoke, analysis_result,
                    response_text, normalized >>

\* The first transport call of _invoke_bedrock_model and what follows it
InvokeModel(outcome) ==
    /\ pc = "invoke"
    /\ LET model_id == invocation.model_id
           inference_profile_arn == DictGet(cross_region_models, model_id)
           inv == WithCall(invocation, FirstTarget(cross_region_models, model_id),
                           RequestBody(prompt), outcome)
       IN  IF outcome.kind = "error" /\ RetriesDirect(inference_profile_arn, outcome.err)
           THEN /\ invocation' = inv
                /\ pc' = "retry"
                /\ SelfBecomes(SelfAfterRoutingFailure(Self, model_id))
                /\ UNCHANGED << candidate, e, last_error, invoked, last_invoke,
                                analysis_result >>
           ELSE EndInvoke([inv EXCEPT !.result = ResultOf(outcome)])
    /\ UNCHANGED << construction, threads, handler, webhook_data, prompt, response_text,
                    normalized >>

\* The transport call of the except clause and what follows it
InvokeModelDirect(outcome) ==
    /\ pc = "retry"
    /\ LET model_id == invocation.model_id
           inference_profile_arn == DictGet(cross_region_models, model_id)
           inv == WithCall(invocation, RetryTarget(inference_profile_arn, model_id),
                           RetryBody(prompt), outcome)
       IN  EndInvoke([inv EXCEPT !.result = ResultOf(outcome)])
    /\ UNCHANGED << construction, threads, handler, webhook_data, prompt, response_text,
                    normalized >>

Next ==
    \/ \E w \in Webhooks : AnalyzeAlertWithBedrock(w) /\ UNCHANGED handler
    \/ \E outcome \in TransportOutcomes : InvokeModel(outcome)
    \/ \E outcome \in TransportOutcomes : InvokeModelDirect(outcome)

Spec == Init /\ [][Next]_vars

\* The cascade with every call answered in the end: a transport call
\* returns or raises (the client has its own timeouts), and the code
\* between two calls has no loop of its own
SpecFair == Init /\ [][Next]_vars /\ WF_vars(Next)

\* ------------------------------------------------------------------------
\* The normalizer on its own: _parse_bedrock_response applied to a raw text
\* ------------------------------------------------------------------------

InitNormalize ==
    /\ Construct([v \in EnvVars |-> None], Sonnet4)
    /\ pc = "normalize"
    /\ Idle
    /\ response_text \in RawTexts
    /\ normalized = NoResult

Normalize ==
    /\ pc = "normalize"
    /\ normalized' = ParseBedrockResponse(response_text)
    /\ pc' = "normalized"
    /\ UNCHANGED << config, construction, threads, handler, webhook_data, prompt, candidate, e,
                    last_error, invoked, invocation, last_invoke, analysis_result,
                    response_text >>

NextNormalize == Normalize

SpecNormalize == InitNormalize /\ [][NextNormalize]_vars

\* ------------------------------------------------------------------------
\* The handler: process_webhook
\* ------------------------------------------------------------------------

\* _parse_webhook_payload(event)
ParseWebhookPayload(ev) ==
    IF S("body") \in DOMAIN ev.d
    THEN LET body == ev.d[S("body")]
         IN  IF body.t = "str"
             THEN LET loaded == JsonLoads(body.s)
                  IN  IF loaded.ok THEN Returned(loaded.v)
                      ELSE Raised(Err("ValueError",
                                      << "Invalid JSON in request body: ",
                                         "Expecting value" >>))
             ELSE Returned(body)
    ELSE Returned(ev)

\* 'alertType' in webhook_data, on whatever json.loads produced
HasAlertType(data) ==
    CASE data.t = "obj" -> Returned(JBool(S("alertType") \in DOMAIN data.d))
      [] data.t = "list" ->
            Returned(JBool(\E i \in 1..Len(data.l) : data.l[i] = JStr(S("alertType"))))
      [] data.t = "str" -> Returned(JBool(Contains(data.s, "alertType")))
      [] OTHER -> Raised(Err("TypeError", << "argument of type '", data.t,
                                             "' is not iterable" >>))

\* _validate_webhook_data(webhook_data)
ValidateWebhookData(data) == HasAlertType(data)

\* _extract_alert_info(webhook_data)
ExtractAlertInfo(data) ==
    IF data.t # "obj"
    THEN Raised(Err("AttributeError", << "'", data.t, "' object has no attribute 'get'" >>))
    ELSE Returned(JObj(
        [k \in { S("alert_type"), S("organization_name"), S("organization_url"),
                 S("network_name"), S("network_url"), S("alert_data") } |->
            CASE k = S("alert_type") -> DictGetOr(data.d, S("alertType"), JStr(S("Unknown")))
              [] k = S("organization_name") ->
                    DictGetOr(data.d, S("organizationName"), JStr(S("Unknown")))
              [] k = S("organization_url") ->
                    DictGetOr(data.d, S("organizationUrl"), JStr(<< >>))
              [] k = S("network_name") ->
                    DictGetOr(data.d, S("networkName"), JStr(S("Unknown")))
              [] k = S("network_url") -> DictGetOr(data.d, S("networkUrl"), JStr(<< >>))
              [] k = S("alert_data") ->
                    DictGetOr(data.d, S("alertData"), JObj(EmptyDict))]))

\* _create_success_response that leaves the analysis out of the body
CreateSuccessResponseDropsAnalysis(info, analysis) ==
    Response(200, << >>, S("Webhook processed successfully"),
             info[S("alert_type")], info[S("organization_name")],
             info[S("network_name")], JObj(EmptyDict))

\* _create_success_response(alert_info, analysis_result)
CreateSuccessResponse(info, analysis) ==
    Response(200, << >>, S("Webhook processed successfully"),
             info[S("alert_type")], info[S("organization_name")],
             info[S("network_name")], analysis)

\* _create_error_response(status_code, message)
CreateErrorResponse(status_code, message) ==
    Response(status_code, S("Request failed"), message, JNull, JNull, JNull, JNull)

\* The part of process_webhook before the analysis: a response when the
\* event is turned down, the payload and the alert info when it is not
Admit(ev) ==
    LET parsed == ParseWebhookPayload(ev)
        valid == ValidateWebhookData(parsed.value)
        info == ExtractAlertInfo(parsed.value)
    IN  IF parsed.status = "raise"
        THEN [ok |-> FALSE, response |-> CreateErrorResponse(400, parsed.err.msg),
              data |-> JNull, info |-> JNull]
        ELSE IF valid.status = "raise"
        THEN [ok |-> FALSE, response |-> CreateErrorResponse(500, S("Internal server error")),
              data |-> JNull, info |-> JNull]
        ELSE IF ~valid.value.b
        THEN [ok |-> FALSE, response |-> CreateErrorResponse(400, S("Invalid webhook data")),
              data |-> JNull, info |-> JNull]
        ELSE IF info.status = "raise"
        THEN [ok |-> FALSE, response |-> CreateErrorResponse(500, S("Internal server error")),
              data |-> JNull, info |-> JNull]
        ELSE [ok |-> TRUE, response |-> NoResponse, data |-> parsed.value,
              info |-> info.value]

\* The body of an API Gateway event: a webhook as JSON text
WebhookText ==
    << "{", Quote, "alertType", Quote, ":", " ", Quote, "settings_changed", Quote, ",", " ",
       Quote, "networkName", Quote, ":", " ", Quote, "HQ", Quote, "}" >>

\* Bodies that are no webhook: not JSON, no alertType, a list that holds
\* the field name, null, a number, a string that holds the field name
BadBodies ==
    { << "{" >>, << "{", "}" >>,
      << "[", Quote, "alertType", Quote, "]" >>, << "null" >>, << "5" >>,
      << Quote, "alertType", Quote >> }

\* The events the handler is called with: API Gateway events with a str
\* body, an event whose body is a dict, direct invocations
Events ==
    { JObj(DictSet(EmptyDict, S("body"), JStr(text))) : text \in { WebhookText } \cup BadBodies }
    \cup { JObj(DictSet(EmptyDict, S("body"), JObj(w))) : w \in Webhooks }
    \cup { JObj(w) : w \in Webhooks }
    \cup { JObj(EmptyDict) }

\* process_webhook(event, context) up to the first transport call: the
\* event is turned down with an error response, or the analysis begins
ProcessWebhook(ev) ==
    /\ pc = "idle"
    /\ event' = ev
    /\ LET admitted == Admit(ev)
       IN  IF admitted.ok
           THEN /\ AnalyzeAlertWithBedrock(admitted.data.d)
                /\ alert_info' = admitted.info.d
                /\ UNCHANGED << notifications, response >>
           ELSE /\ response' = admitted.response
                /\ pc' = "responded"
                /\ UNCHANGED << config, construction, threads, webhook_data, prompt, candidate, e,
                                last_error, invoked, invocation, last_invoke,
                                analysis_result, response_text, normalized,
                                alert_info, notifications >>

\* What a notification channel does: nothing (not configured), a delivery,
\* a delivery the service turns down, an exception
ChatOutcomes == { "skipped", "200", "500", "raise" }

EmailOutcomes == { "skipped", "sent", "raise" }

\* An entry of notifications
Notification(channel, analysis, outcome) ==
    [channel |-> channel, analysis |-> analysis, outcome |-> outcome]

\* _send_google_chat_message outside a try: an exception of the chat
\* channel reaches the handler of process_webhook
SendGoogleChatMessageUncaught(outcome) ==
    /\ pc = "done"
    /\ analysis_result.status = "return"
    /\ notifications' = Append(notifications,
                               Notification("chat", analysis_result.value, outcome))
    /\ IF outcome = "raise"
       THEN /\ pc' = "responded"
            /\ response' = CreateErrorResponse(500, S("Internal server error"))
       ELSE /\ pc' = "email"
            /\ UNCHANGED response
    /\ UNCHANGED << config, construction, threads, webhook_data, prompt, candidate, e, last_error,
                    invoked, invocation, last_invoke, analysis_result, response_text,
                    normalized, event, alert_info >>

\* _send_notifications, first half: _send_google_chat_message in its try
SendGoogleChatMessage(outcome) ==
    /\ pc = "done"
    /\ analysis_result.status = "return"
    /\ notifications' = Append(notifications,
                               Notification("chat", analysis_result.value, outcome))
    /\ pc' = "email"
    /\ UNCHANGED << config, construction, threads, webhook_data, prompt, candidate, e, last_error,
                    invoked, invocation, last_invoke, analysis_result, response_text,
                    normalized, event, alert_info, response >>

\* _send_notifications, second half: _send_email_alert in its try, and the
\* return of process_webhook
SendEmailAlert(outcome) ==
    /\ pc = "email"
    /\ notifications' = Append(notifications,
                               Notification("email", analysis_result.value, outcome))
    /\ response' = CreateSuccessResponse(alert_info, analysis_result.value)
    /\ pc' = "responded"
    /\ UNCHANGED << config, construction, threads, webhook_data, prompt, candidate, e, last_error,
                    invoked, invocation, last_invoke, analysis_result, response_text,
                    normalized, event, alert_info >>

\* The environments and the primary model of the deployed handler
HandlerEnvironments == { [v \in EnvVars |-> None], Claude4Environment }

InitWebhook ==
    /\ \E env \in HandlerEnvironments : Construct(env, Sonnet4)
    /\ pc = "idle"
    /\ Idle
    /\ response_text = << >>
    /\ normalized = NoResult

NextWebhook ==
    \/ \E ev \in Events : ProcessWebhook(ev)
    \/ \E outcome \in TransportOutcomes : InvokeModel(outcome)
    \/ \E outcome \in TransportOutcomes : InvokeModelDirect(outcome)
    \/ \E outcome \in ChatOutcomes : SendGoogleChatMessage(outcome)
    \/ \E outcome \in EmailOutcomes : SendEmailAlert(outcome)

SpecWebhook == InitWebhook /\ [][NextWebhook]_vars

\* ------------------------------------------------------------------------
\* Concurrent invocations of lambda_handler on the global processor
\* ------------------------------------------------------------------------

\* The model of the _invoke_bedrock_model call thread t is in
ThreadModel(t) == t.invoked[Len(t.invoked)].model_id

\* _analyze_alert_with_bedrock(w) is entered by a thread
ThreadStart(self, t, w) ==
    [t EXCEPT !.pc = "invoke",
              !.webhook_data = w,
              !.prompt = CreateAnalysisPrompt(w),
              !.candidate = 0,
              !.invoked = << Call(self.bedrock_model_id, "running") >>]

\* An _invoke_bedrock_model call of thread t ends with result: the cascade
\* returns, or goes on to the next candidate, or is exhausted
ThreadEnd(self, t, result) ==
    IF result.status = "return" \/ ~Catches(result.err)
    THEN [t EXCEPT !.pc = "done", !.result = result,
                   !.invoked = Ended(@, result.status)]
    ELSE LET next == NextCandidate(self.fallback_models, self.bedrock_model_id, t.candidate)
             e1 == IF t.candidate = 0 THEN result.err ELSE t.e
         IN  IF next # 0
             THEN [t EXCEPT !.e = e1, !.candidate = next,
                            !.invoked = Append(Ended(@, "raise"),
                                               Call(self.fallback_models[next], "running"))]
             ELSE [t EXCEPT !.e = e1, !.pc = "done",
                            !.invoked = Ended(@, "raise"),
                            !.result = Returned(CreateFallbackAnalysis(
                                           FallbackMessage(e1, result.err)))]

\* One transport call of thread t and what follows it in the thread
ThreadStep(self, t, outcome) ==
    LET model_id == ThreadModel(t)
        inference_profile_arn == DictGet(self.cross_region_models, model_id)
    IN  IF t.pc = "invoke"
        THEN LET called == [t EXCEPT !.targets =
                               Append(@, FirstTarget(self.cross_region_models, model_id))]
             IN  IF outcome.kind = "error" /\ RetriesDirect(inference_profile_arn, outcome.err)
                 THEN [called EXCEPT !.pc = "retry"]
                 ELSE ThreadEnd(self, called, ResultOf(outcome))
        ELSE ThreadEnd(self,
                       [t EXCEPT !.targets =
                           Append(@, RetryTarget(inference_profile_arn, model_id))],
                       ResultOf(outcome))

\* self after that transport call
SelfAfterStep(self, t, outcome) ==
    LET model_id == ThreadModel(t)
        inference_profile_arn == DictGet(self.cross_region_models, model_id)
    IN  IF t.pc = "invoke" /\ outcome.kind = "error"
           /\ RetriesDirect(inference_profile_arn, outcome.err)
        THEN SelfAfterRoutingFailure(self, model_id)
        ELSE SelfAfterInvoke(self, model_id, ResultOf(outcome))

\* Another invocation is in the middle of its cascade
OthersRunning(i) == \E j \in Invocations \ { i } : threads[j].pc \in { "invoke", "retry" }

\* The payloads of the concurrent invocations
ConcurrentWebhooks ==
    Webhooks \cup { DictSet(EmptyDict, S("alertType"), JStr(S("appliance_connectivity_change"))) }

\* What the transport does to a call of a concurrent invocation
ConcurrentOutcomes ==
    { [kind |-> "error", err |-> Err("ClientError", RoutingMessage), body |-> JNull],
      [kind |-> "error", err |-> Err("ClientError", ThrottlingMessage), body |-> JNull],
      [kind |-> "ok", err |-> NoErr, body |-> Envelope(JsonDumps(JObj(CompleteReply)))] }

\* lambda_handler is called for invocation i while others may be running
ConcurrentStart(i, w) ==
    /\ pc = "concurrent"
    /\ threads[i].pc = "idle"
    /\ threads' = [threads EXCEPT ![i] =
                      [ThreadStart(Self, threads[i], w) EXCEPT
                          !.overlapped = OthersRunning(i)]]
    /\ UNCHANGED << config, construction, handler, pc, webhook_data, prompt, candidate, e,
                    last_error, invoked, invocation, last_invoke, analysis_result,
                    response_text, normalized >>

\* Invocation i makes its next transport call
ConcurrentInvoke(i, outcome) ==
    /\ pc = "concurrent"
    /\ threads[i].pc \in { "invoke", "retry" }
    /\ threads' = [threads EXCEPT ![i] =
                      [ThreadStep(Self, threads[i], outcome) EXCEPT
                          !.overlapped = @ \/ OthersRunning(i)]]
    /\ SelfBecomes(SelfAfterStep(Self, threads[i], outcome))
    /\ UNCHANGED << construction, handler, pc, webhook_data, prompt, candidate, e,
                    last_error, invoked, invocation, last_invoke, analysis_result,
                    response_text, normalized >>

InitConcurrent ==
    /\ Construct(Claude4Environment, Sonnet4)
    /\ pc = "concurrent"
    /\ Idle
    /\ response_text = << >>
    /\ normalized = NoResult

NextConcurrent ==
    \/ \E i \in Invocations, w \in ConcurrentWebhooks : ConcurrentStart(i, w)
    \/ \E i \in Invocations, outcome \in ConcurrentOutcomes : ConcurrentInvoke(i, outcome)

SpecConcurrent == InitConcurrent /\ [][NextConcurrent]_vars

\* ------------------------------------------------------------------------
\* Properties
\* ------------------------------------------------------------------------

\* The order in which the cascade may call the models: the primary, then
\* the fallback list without the primary
CandidateOrder ==
    << bedrock_model_id >> \o SelectSeq(fallback_models, LAMBDA m : m # bedrock_model_id)

\* The cascade is over and every candidate has failed
Exhausted ==
    /\ pc = "done"
    /\ Len(invoked) = Len(CandidateOrder)
    /\ \A i \in 1..Len(invoked) : invoked[i].status = "raise"

\* needle occurs in s as a contiguous run of units
Embeds(s, needle) ==
    \E i \in 1..(Len(s) - Len(needle) + 1) : SubSeq(s, i, i + Len(needle) - 1) = needle

\* The address the registry holds for the model of invocation record r
AddressOf(r) ==
    IF r.model_id \in DOMAIN cross_region_models
    THEN cross_region_models[r.model_id]
    ELSE None

Addressed(r) == AddressOf(r) # None /\ AddressOf(r) # ""

\* The first transport call of r failed
FirstCallFailed(r) == Len(r.outcomes) >= 1 /\ r.outcomes[1].kind = "error"

\* The text of the first failure of r names an inference profile
FirstErrorNamesProfile(r) == Contains(r.outcomes[1].err.msg, "inference-profile")

\* r has ended
Finished(r) == r.result.status # "none"

InvocationRecords == { invocation, last_invoke }

\* C1: _analyze_alert_with_bedrock never raises; when it has ended, it has
\* returned a dict that holds the seven fields of an Assessment, whatever the
\* transport did, also when every candidate failed.
C1_AnalyzeNeverRaises ==
    /\ analysis_result.status # "raise"
    /\ pc = "done" =>
          /\ analysis_result.status = "return"
          /\ analysis_result.value.t = "obj"
          /\ RequiredFields \subseteq DOMAIN analysis_result.value.d

\* C1 witness: the cascade is exhausted, the primary failed in the transport
\* with an error that is no ClientError and the last candidate with a reply
\* that is not an object.
C1_Witness ==
    /\ Exhausted
    /\ e.type = "Exception"
    /\ last_error.type = "TypeError"
    /\ analysis_result.status = "return"

\* C2: every Assessment _parse_bedrock_response returns holds all seven
\* fields, none of them empty, and its severity is one of CRITICAL, HIGH,
\* MEDIUM, LOW, INFO.
C2_NormalizedFullyPopulated ==
    (pc = "normalized" /\ normalized.status = "return") =>
        /\ normalized.value.t = "obj"
        /\ RequiredFields \subseteq DOMAIN normalized.value.d
        /\ \A k \in RequiredFields : Truthy(normalized.value.d[k])
        /\ normalized.value.d[S("severity")].t = "str"
        /\ normalized.value.d[S("severity")].s \in valid_severities

\* C3: the models are invoked in the order primary, then the fallback list
\* in list order without the primary, and every call but the latest one has
\* failed: no candidate is called before all earlier ones failed, none after
\* one returned.
C3_CascadeOrder ==
    /\ Len(invoked) <= Len(CandidateOrder)
    /\ \A i \in 1..Len(invoked) : invoked[i].model_id = CandidateOrder[i]
    /\ \A i \in 1..(Len(invoked) - 1) : invoked[i].status = "raise"
    /\ pc \in { "invoke", "retry" } =>
          /\ invoked # << >>
          /\ invoked[Len(invoked)].status = "running"
          /\ invocation.model_id = invoked[Len(invoked)].model_id

\* C3 witness: with the primary first in the list, the primary failed, the
\* second list entry returned and nothing else was called.
C3_Witness ==
    /\ pc = "done"
    /\ bedrock_model_id = fallback_models[1]
    /\ Len(invoked) = 2
    /\ invoked[1] = Call(fallback_models[1], "raise")
    /\ invoked[2] = Call(fallback_models[2], "return")

\* C4: when the call to a configured address fails with a ClientError whose
\* text names an inference profile, exactly one more transport call is made,
\* with the same body and the logical model id as modelId, and the
\* invocation ends as that call ends.
C4_RoutingFailureRetriesOnce ==
    \A r \in InvocationRecords :
        ( /\ Addressed(r)
          /\ FirstCallFailed(r)
          /\ r.outcomes[1].err.type = "ClientError"
          /\ FirstErrorNamesProfile(r) ) =>
            /\ Len(r.targets) <= 2
            /\ Len(r.targets) = 1 => (r = invocation /\ pc = "retry" /\ ~Finished(r))
            /\ Len(r.targets) = 2 =>
                  /\ Finished(r)
                  /\ r.targets[2] = r.model_id
                  /\ r.bodies[2] = r.bodies[1]
                  /\ r.outcomes[2].kind = "error" => r.result = Raised(r.outcomes[2].err)
                  /\ r.outcomes[2].kind = "ok" =>
                        r.result = HandledResponses[r.outcomes[2].body]

\* C4 witness: a routing failure was followed by a direct call that the
\* model answered, and the invocation returned.
C4_Witness ==
    /\ Addressed(last_invoke)
    /\ FirstCallFailed(last_invoke)
    /\ last_invoke.outcomes[1].err.type = "ClientError"
    /\ FirstErrorNamesProfile(last_invoke)
    /\ Len(last_invoke.targets) = 2
    /\ last_invoke.targets[1] = AddressOf(last_invoke)
    /\ last_invoke.outcomes[2].kind = "ok"
    /\ last_invoke.result.status = "return"

\* C5: when the call to a configured address fails with any error whose text
\* contains 'inference-profile', a plain Exception included, the transport
\* is called a second time with the logical model id and the invocation ends
\* as that call ends.
C5_AnyProfileErrorRetries ==
    \A r \in InvocationRecords :
        (Addressed(r) /\ FirstCallFailed(r) /\ FirstErrorNamesProfile(r)) =>
            /\ r.targets[1] = AddressOf(r)
            /\ Finished(r) =>
                  /\ Len(r.targets) = 2
                  /\ r.targets[2] = r.model_id
                  /\ r.outcomes[2].kind = "ok" =>
                        r.result = HandledResponses[r.outcomes[2].body]

\* C6: when the first transport call fails and either the model has no
\* address or the error text names no inference profile, the invocation
\* makes that one call only and raises the same error.
C6_OtherFailurePropagates ==
    \A r \in InvocationRecords :
        (FirstCallFailed(r) /\ (~Addressed(r) \/ ~FirstErrorNamesProfile(r))) =>
            /\ Finished(r)
            /\ Len(r.targets) = 1
            /\ r.result = Raised(r.outcomes[1].err)

\* C6 witness: a model with an address was throttled: one call, the
\* throttling error raised.
C6_Witness ==
    /\ Addressed(last_invoke)
    /\ Len(last_invoke.targets) = 1
    /\ last_invoke.targets[1] = AddressOf(last_invoke)
    /\ last_invoke.outcomes[1].kind = "error"
    /\ last_invoke.outcomes[1].err = Err("ClientError", ThrottlingMessage)
    /\ last_invoke.result = Raised(Err("ClientError", ThrottlingMessage))

\* C7: the first transport call of an invocation goes to the address of the
\* model when the registry holds a non-empty one and to the logical model id
\* when the model is not in the registry or its address is unset or empty;
\* when that call succeeds no other call is made.
C7_FirstCallTarget ==
    \A r \in InvocationRecords :
        Len(r.targets) >= 1 =>
            /\ r.targets[1] = IF Addressed(r) THEN AddressOf(r) ELSE r.model_id
            /\ r.outcomes[1].kind = "ok" => (Len(r.targets) = 1 /\ Finished(r))

\* C7 witness: a model with a configured address answered the first call.
C7_Witness ==
    /\ Addressed(last_invoke)
    /\ last_invoke.targets = << ArnFor(ProfileEnvVar[last_invoke.model_id]) >>
    /\ last_invoke.outcomes[1].kind = "ok"
    /\ last_invoke.result.status = "return"

\* C8: when the primary and every fallback model fail, the analysis returns
\* the fallback Assessment: severity HIGH, category System Error, the fixed
\* impact text and three recommendations, immediate action required,
\* resolution time Unknown.
C8_ExhaustedGivesFallback ==
    Exhausted =>
        /\ analysis_result.status = "return"
        /\ analysis_result.value.t = "obj"
        /\ LET a == analysis_result.value.d
           IN  /\ DOMAIN a = RequiredFields
               /\ a[S("severity")] = JStr(S("HIGH"))
               /\ a[S("category")] = JStr(S("System Error"))
               /\ a[S("summary")].t = "str"
               /\ a[S("impact")] =
                     JStr(S("Unable to determine impact - manual review required"))
               /\ a[S("recommendations")] =
                     JList(<< JStr(S("Manual review required")),
                              JStr(S("Check Meraki dashboard for details")),
                              JStr(S("Contact system administrator if issues persist")) >>)
               /\ a[S("requires_immediate_action")] = JBool(TRUE)
               /\ a[S("estimated_resolution_time")] = JStr(S("Unknown"))

\* C8 witness: all candidates failed, with the primary outside the list, so
\* that the whole list was tried.
C8_Witness ==
    /\ Exhausted
    /\ Len(invoked) = Len(fallback_models) + 1

\* C9 as stated: when the cascade is exhausted the summary embeds the text
\* of the error of the last candidate.
C9_SummaryEmbedsLastError ==
    Exhausted => Embeds(analysis_result.value.d[S("summary")].s, last_error.msg)

\* C9 amended: when the cascade is exhausted the summary is the fixed prefix
\* followed by the text of the first error of the cascade, the one the
\* primary model failed with; that error is bound when the primary fails and
\* is never rebound.
C9_SummaryEmbedsPrimaryError ==
    /\ Exhausted =>
          analysis_result.value.d[S("summary")].s =
              << "Alert received but analysis failed: " >> \o e.msg
    /\ (Len(invoked) >= 2 /\ last_invoke.model_id = bedrock_model_id) =>
          e = last_invoke.result.err
    /\ Len(invoked) <= 1 /\ pc # "done" => e = NoErr

\* C9 witness: the cascade is exhausted and the last candidate failed with
\* another error than the primary.
C9_Witness ==
    /\ Exhausted
    /\ ~Embeds(e.msg, last_error.msg)
    /\ ~Embeds(last_error.msg, e.msg)

\* C10: _parse_bedrock_response raises nothing, whatever the raw text.
C10_NormalizeNeverRaises == normalized.status # "raise"

\* ------------------------------------------------------------------------
\* Properties of the normalizer
\* ------------------------------------------------------------------------

\* What json.loads makes of the raw text after the clean-up
ParsedInput == JsonLoads(CleanResponseText(response_text))

\* The raw text held a JSON object
InputIsObject == ParsedInput.ok /\ ParsedInput.v.t = "obj"

\* The fields of that object
InputFields == ParsedInput.v.d

\* The call has returned an Assessment
NormalizedReturned ==
    pc = "normalized" /\ normalized.status = "return" /\ normalized.value.t = "obj"

\* The object carries a non-empty str in field severity
InputHasSeverity ==
    /\ InputIsObject
    /\ S("severity") \in DOMAIN InputFields
    /\ InputFields[S("severity")].t = "str"
    /\ InputFields[S("severity")].s # << >>

\* The example of the specification: a json fence around {"severity": "low"}
FencedLow ==
    FenceJson \o << "\n" >>
    \o JsonDumps(JObj(DictSet(EmptyDict, S("severity"), JStr(S("low")))))
    \o << "\n" >> \o Fence

\* C11: a severity that equals an enum member ignoring case comes out as
\* that member in upper case, any other severity as MEDIUM; the fenced text
\* holding {"severity": "low"} gives LOW and the default in every other
\* field.
C11_SeverityCaseNormalized ==
    /\ (pc = "normalized" /\ InputHasSeverity) =>
          /\ normalized.status = "return"
          /\ normalized.value.d[S("severity")] =
                JStr(IF Upper(InputFields[S("severity")].s) \in valid_severities
                     THEN Upper(InputFields[S("severity")].s)
                     ELSE S("MEDIUM"))
    /\ (pc = "normalized" /\ response_text = FencedLow) =>
          normalized = Returned(JObj(DictSet(defaults, S("severity"), JStr(S("LOW")))))

\* A value a complete reply may carry in required field k
ValidValue(k, x) ==
    CASE k = S("severity") -> x.t = "str" /\ Upper(x.s) \in valid_severities
      [] k = S("recommendations") ->
            /\ x.t = "list"
            /\ x.l # << >>
            /\ \A i \in 1..Len(x.l) : x.l[i].t = "str"
      [] k = S("requires_immediate_action") -> x.t = "bool"
      [] OTHER -> x.t = "str" /\ x.s # << >>

\* The raw text held an object with a valid value in every required field
InputIsComplete ==
    /\ InputIsObject
    /\ RequiredFields \subseteq DOMAIN InputFields
    /\ \A k \in RequiredFields : ValidValue(k, InputFields[k])

\* C12: an object that holds a valid value in every required field,
\* requires_immediate_action = false included, comes back equal to the input
\* in every field, but for the severity, which is upper-cased.
C12_RoundTrip ==
    (pc = "normalized" /\ InputIsComplete) =>
        normalized =
            Returned(JObj([InputFields EXCEPT
                ![S("severity")] = JStr(Upper(InputFields[S("severity")].s))]))

\* The fallback Assessment of a text that is not JSON
ParseFailureFallback ==
    /\ normalized.status = "return"
    /\ normalized.value.t = "obj"
    /\ DOMAIN normalized.value.d = RequiredFields
    /\ normalized.value.d[S("severity")] = JStr(S("HIGH"))
    /\ normalized.value.d[S("category")] = JStr(S("System Error"))
    /\ normalized.value.d[S("summary")].t = "str"
    /\ Embeds(normalized.value.d[S("summary")].s, S("JSON parsing failed"))

\* C13: a raw text that is not JSON after strip and fence removal gives the
\* fallback Assessment, severity HIGH, category System Error, a summary that
\* holds 'JSON parsing failed', and nothing is raised.
C13_NotJsonGivesFallback ==
    /\ (pc = "normalized" /\ ~ParsedInput.ok) => ParseFailureFallback
    /\ (pc = "normalized" /\ response_text \in NotJson) => ParseFailureFallback

\* C13 witness: the text 'not json' has been normalized to the fallback.
C13_Witness ==
    /\ pc = "normalized"
    /\ response_text = << "not", " ", "j", "s", "o", "n" >>
    /\ ~ParsedInput.ok
    /\ normalized.status = "return"
    /\ normalized.value.d[S("severity")] = JStr(S("HIGH"))

\* ------------------------------------------------------------------------
\* Properties of the cascade, continued
\* ------------------------------------------------------------------------

\* C14: within one cascade no model is invoked twice: the list entry equal
\* to the primary model is passed over, wherever it stands in the list, and
\* the list holds no entry twice, so that no model that failed is called
\* again.
C14_NoModelInvokedTwice ==
    /\ \A i, j \in 1..Len(invoked) :
          i # j => invoked[i].model_id # invoked[j].model_id
    /\ \A i \in 2..Len(invoked) : invoked[i].model_id # bedrock_model_id
    /\ \A i, j \in 1..Len(fallback_models) :
          i # j => fallback_models[i] # fallback_models[j]

\* C14 witness: the primary model stands late in the list, it failed, and
\* the cascade went on past its list entry to the entry after it.
C14_Witness ==
    /\ \E i \in 2..(Len(fallback_models) - 1) :
          /\ fallback_models[i] = bedrock_model_id
          /\ invoked # << >>
          /\ invoked[Len(invoked)].model_id = fallback_models[i + 1]
    /\ invoked[1] = Call(bedrock_model_id, "raise")

\* C15: constructed with BEDROCK_CLAUDE4_SONNET_PROFILE_ARN and
\* BEDROCK_CLAUDE4_OPUS_PROFILE_ARN set, the processor holds both addresses
\* in its attributes and the registry has an entry for Claude Sonnet 4 and
\* for Claude Opus 4.
C15_HoldsBothClaude4Profiles ==
    ( /\ environ[ProfileEnvVar[Sonnet4]] = "arn"
      /\ environ[OpusProfileEnvVar] = "arn" ) =>
        /\ "claude4_sonnet_profile_arn" \in DOMAIN profile_arns
        /\ profile_arns["claude4_sonnet_profile_arn"] = ArnFor(ProfileEnvVar[Sonnet4])
        /\ "claude4_opus_profile_arn" \in DOMAIN profile_arns
        /\ profile_arns["claude4_opus_profile_arn"] = ArnFor(OpusProfileEnvVar)
        /\ Sonnet4 \in DOMAIN cross_region_models
        /\ Opus4 \in DOMAIN cross_region_models

\* ------------------------------------------------------------------------
\* Properties of the handler
\* ------------------------------------------------------------------------

\* Every candidate of the cascade has been called and has failed
CascadeExhausted ==
    /\ analysis_result.status # "none"
    /\ Len(invoked) = Len(CandidateOrder)
    /\ \A i \in 1..Len(invoked) : invoked[i].status = "raise"

\* process_webhook is running or has run
InHandler == event # NoEvent

\* C16: for a webhook that passed validation, when every model failed the
\* handler hands the fallback Assessment (all seven fields, severity HIGH,
\* category System Error) to both notification channels, chat first, and
\* returns status 200 with that Assessment in the body, whatever the
\* channels do; it returns neither 400 nor 500 nor an empty analysis.
C16_ExhaustedStillSucceeds ==
    (InHandler /\ CascadeExhausted) =>
        /\ pc \in { "done", "email", "responded" }
        /\ analysis_result.status = "return"
        /\ analysis_result.value.t = "obj"
        /\ RequiredFields \subseteq DOMAIN analysis_result.value.d
        /\ analysis_result.value.d[S("severity")] = JStr(S("HIGH"))
        /\ analysis_result.value.d[S("category")] = JStr(S("System Error"))
        /\ Len(notifications) = (CASE pc = "done" -> 0 [] pc = "email" -> 1 [] OTHER -> 2)
        /\ \A i \in 1..Len(notifications) :
              /\ notifications[i].analysis = analysis_result.value
              /\ notifications[i].channel = (IF i = 1 THEN "chat" ELSE "email")
        /\ pc = "responded" =>
              /\ response.statusCode = 200
              /\ response.analysis = analysis_result.value
              /\ response.alert_type = webhook_data[S("alertType")]
        /\ pc # "responded" => response = NoResponse

\* C16 witness: an API Gateway event was admitted, every model failed, both
\* channels raised and the handler answered 200.
C16_Witness ==
    /\ InHandler
    /\ S("body") \in DOMAIN event.d
    /\ CascadeExhausted
    /\ pc = "responded"
    /\ response.statusCode = 200
    /\ notifications[1].outcome = "raise"
    /\ notifications[2].outcome = "raise"

\* ------------------------------------------------------------------------
\* Properties of concurrent invocations
\* ------------------------------------------------------------------------

\* self as the constructor left it
ConstructedSelf ==
    [ bedrock_model_id |-> Sonnet4,
      fallback_models |-> FallbackModels,
      cross_region_models |->
          [m \in DOMAIN ProfileAttribute |-> EnvironGet(environ, ProfileEnvVar[m])] ]

\* The locals of a thread proper, without the record of the overlap
Locals(t) == [t EXCEPT !.overlapped = FALSE]

\* Invocation i takes a step that its own locals, its own payload or
\* transport outcome and the constructed processor determine
OwnStep(i) ==
    \/ \E w \in ConcurrentWebhooks :
          /\ threads[i].pc = "idle"
          /\ Locals(threads'[i]) = Locals(ThreadStart(ConstructedSelf, threads[i], w))
    \/ \E outcome \in ConcurrentOutcomes :
          /\ threads[i].pc \in { "invoke", "retry" }
          /\ Locals(threads'[i]) = Locals(ThreadStep(ConstructedSelf, threads[i], outcome))

\* C17: concurrent invocations do not interfere.  Under every interleaving,
\* a step changes the locals of one invocation only, and what they become
\* is what that invocation's own payload or transport outcome makes of its
\* own locals on the processor as constructed: the models it calls and the
\* Assessment it returns owe nothing to the other invocation.
C17_InvocationsIndependent ==
    [][ \A i \in Invocations :
            \/ threads'[i] = threads[i]
            \/ /\ \A j \in Invocations \ { i } : threads'[j] = threads[j]
               /\ OwnStep(i) ]_vars

\* C17 witness: two invocations with different payloads ran at the same
\* time; one called the primary model and returned its reply, the other
\* went through the whole list and returned the fallback Assessment.
C17_Witness ==
    /\ \A i \in Invocations : threads[i].pc = "done" /\ threads[i].overlapped
    /\ threads["a"].webhook_data # threads["b"].webhook_data
    /\ Len(threads["a"].invoked) = 1
    /\ threads["a"].result = Returned(JObj(CompleteReply))
    /\ Len(threads["b"].invoked) = Len(FallbackModels)
    /\ threads["b"].result.value.d[S("severity")] = JStr(S("HIGH"))

\* ------------------------------------------------------------------------
\* The configuration
\* ------------------------------------------------------------------------

\* C18: the primary model id, the fallback list and the registry are what
\* the constructor made of the environment, and no step of process_webhook,
\* of the analysis, of an invocation or of the normalizer inside it changes
\* them, whether the step succeeds or fails.
C18_ConfigurationReadOnly ==
    /\ [](/\ fallback_models = FallbackModels
          /\ cross_region_models =
                [m \in DOMAIN ProfileAttribute |-> EnvironGet(environ, ProfileEnvVar[m])]
          /\ bedrock_model_id = Sonnet4)
    /\ [][config' = config]_vars

\* C18 witness: with an address configured for the primary model, the
\* handler has answered after a cascade in which the primary model failed
\* and a fallback model gave a reply that is not JSON.
C18_Witness ==
    /\ pc = "responded"
    /\ response.statusCode = 200
    /\ cross_region_models[Sonnet4] = ArnFor(ProfileEnvVar[Sonnet4])
    /\ Len(invoked) = 2
    /\ invoked[1].status = "raise"
    /\ Len(notifications) = 2
    /\ analysis_result.value.d[S("summary")].s =
          << "Alert received but analysis failed: " >> \o S("JSON parsing failed")

\* ------------------------------------------------------------------------
\* Properties of the normalizer, continued
\* ------------------------------------------------------------------------

\* JSON object texts
ObjectDocs ==
    { JsonDumps(JObj(CompleteReply)),
      JsonDumps(JObj(DictSet(EmptyDict, S("severity"), JStr(S("low"))))),
      JsonDumps(JObj(EmptyDict)) }

\* Language tags of an opening fence: none, json, others
FenceTags == { << >>, << "j", "s", "o", "n" >>, << "p", "y" >>, << "J", "S", "O", "N" >> }

\* doc as it is and doc in a fenced code block with one of the tags tags,
\* each with white space around it
FencedForms(doc, tags) ==
    { lead \o doc \o trail : lead \in Leads, trail \in Trails }
    \cup { lead \o Fence \o tag \o << "\n" >> \o doc \o << "\n" >> \o Fence \o trail :
             lead \in Leads, tag \in tags, trail \in Trails }

\* C19: a JSON object text, the text in a fenced code block, and the text
\* in a fenced code block whose opening fence carries a language tag, json
\* or another, each with white space around it, all give the Assessment that
\* the text alone gives.
C19_FenceStripped ==
    pc = "normalized" =>
        \A doc \in ObjectDocs :
            response_text \in FencedForms(doc, FenceTags) =>
                normalized = ParseBedrockResponse(doc)

\* The same for the opening fences without a tag and with the tag json
FenceStrippedNoTagOrJson ==
    pc = "normalized" =>
        \A doc \in ObjectDocs :
            response_text \in FencedForms(doc, { << >>, << "j", "s", "o", "n" >> }) =>
                normalized = ParseBedrockResponse(doc)

\* Every fenced form is among the raw texts
FencedFormsCovered ==
    \A doc \in ObjectDocs : FencedForms(doc, FenceTags) \subseteq RawTexts

\* The documented default of each required field
DocumentedDefault(k) ==
    CASE k = S("severity") -> JStr(S("MEDIUM"))
      [] k = S("category") -> JStr(S("Unknown"))
      [] k = S("summary") -> JStr(S("Alert received but analysis incomplete"))
      [] k = S("impact") -> JStr(S("Unable to determine impact"))
      [] k = S("recommendations") ->
            JList(<< JStr(S("Manual review required")), JStr(S("Check Meraki dashboard")) >>)
      [] k = S("requires_immediate_action") -> JBool(TRUE)
      [] k = S("estimated_resolution_time") -> JStr(S("Unknown"))

\* Empty string, empty list, empty object, false, 0 and null
Falsy(x) ==
    x \in { JStr(<< >>), JList(<< >>), JObj(EmptyDict), JBool(FALSE), JNum(0), JNull }

BodyIsNotJson ==
    /\ S("body") \in DOMAIN event.d
    /\ event.d[S("body")].t = "str"
    /\ ~JsonLoads(event.d[S("body")].s).ok

\* The payload of the event: the body, parsed when it is a str, or the
\* event itself when it has no body
PayloadOf(ev) ==
    IF S("body") \notin DOMAIN ev.d THEN ev
    ELSE IF ev.d[S("body")].t = "str" THEN JsonLoads(ev.d[S("body")].s).v
    ELSE ev.d[S("body")]

\* The payload has no field alertType
LacksAlertType(payload) ==
    ~(payload.t = "obj" /\ S("alertType") \in DOMAIN payload.d)

\* The handler made no model invocation and dispatched no notification
NoSideEffect ==
    /\ invoked = << >>
    /\ invocation = NoInvocation
    /\ last_invoke = NoInvocation
    /\ analysis_result = NoResult
    /\ notifications = << >>

\* C21: process_webhook always returns, with status 200, 400 or 500; when
\* the body is not JSON or the payload has no field alertType it returns
\* 400 and has invoked no model and dispatched no notification.
C21_RejectsBadPayloads ==
    /\ response.statusCode \in { 0, 200, 400, 500 }
    /\ pc = "responded" => response.statusCode \in { 200, 400, 500 }
    /\ (InHandler /\ (BodyIsNotJson \/ LacksAlertType(PayloadOf(event)))) =>
          /\ pc = "responded"
          /\ response.statusCode = 400
          /\ NoSideEffect

\* The status is 200, 400 or 500; a body that is not JSON gives 400; a
\* payload that is a dict without alertType gives 400; and every 400 and
\* 500 comes before any model invocation and any notification.
RejectsBeforeSideEffects ==
    /\ pc = "responded" => response.statusCode \in { 200, 400, 500 }
    /\ (InHandler /\ BodyIsNotJson) => (response.statusCode = 400 /\ NoSideEffect)
    /\ ( /\ InHandler
         /\ ~BodyIsNotJson
         /\ PayloadOf(event).t = "obj"
         /\ LacksAlertType(PayloadOf(event)) ) =>
            (response.statusCode = 400 /\ NoSideEffect)
    /\ response.statusCode \in { 400, 500 } => NoSideEffect

\* ------------------------------------------------------------------------
\* Properties of the cascade: resources and progress
\* ------------------------------------------------------------------------

\* The candidates of a cascade: the primary and the list without it
MaxCandidates ==
    1 + Len(SelectSeq(fallback_models, LAMBDA m : m # bedrock_model_id))

\* C22: an analysis ends after a bounded number of transport calls: at most
\* two per candidate model, two only for a model with a configured address
\* whose first call failed, and at most one candidate more than the list
\* without the primary has entries; and an analysis that has begun ends,
\* whatever the transport answers.
C22_BoundedTransportCalls ==
    /\ [](/\ \A r \in InvocationRecords :
                /\ Len(r.targets) <= 2
                /\ Len(r.targets) = 2 => (Addressed(r) /\ FirstCallFailed(r))
                /\ Len(r.outcomes) = Len(r.targets)
          /\ Len(invoked) <= MaxCandidates
          /\ candidate \in 0..Len(fallback_models))
    /\ (pc \in { "invoke", "retry" }) ~> (pc = "done")

\* C22 witness: a long analysis: the primary stands outside the list, seven
\* models failed before a model with a configured address was reached, and
\* that model answered on its second transport call.
C22_Witness ==
    /\ pc = "done"
    /\ bedrock_model_id \notin { fallback_models[i] : i \in 1..Len(fallback_models) }
    /\ Len(invoked) = Len(fallback_models)
    /\ invoked[Len(invoked)].model_id = last_invoke.model_id
    /\ Addressed(last_invoke)
    /\ Len(last_invoke.targets) = 2
    /\ last_invoke.result.status = "return"

\* The outcome of the last transport call of invocation record r
LastOutcome(r) == r.outcomes[Len(r.outcomes)]

\* The Assessment _create_fallback_analysis('JSON parsing failed') makes
IsParseFailureFallback(x) ==
    /\ x.t = "obj"
    /\ x.d[S("severity")] = JStr(S("HIGH"))
    /\ x.d[S("category")] = JStr(S("System Error"))
    /\ x.d[S("summary")] =
          JStr(<< "Alert received but analysis failed: " >> \o S("JSON parsing failed"))

\* C23: the cascade goes on to the next candidate exactly when the
\* invocation of the current one raises.  A failure of the invocation's
\* last transport call (one the invocation does not retry), a reply
\* envelope without a content block and a reply that is JSON but no object
\* make the invocation raise; a reply that is not JSON makes it return the
\* 'JSON parsing failed' fallback.  After a raise the next candidate is
\* running, or none is left; after a return the analysis is over with that
\* result and no other model is invoked.
C23_AdvancesExactlyOnRaise ==
    Finished(last_invoke) =>
        LET r == last_invoke
            o == LastOutcome(last_invoke)
            n == Len(invoked)
        IN  /\ o.kind = "error" => r.result = Raised(o.err)
            /\ (o.kind = "ok" /\ o.body = EmptyEnvelope) =>
                  (r.result.status = "raise" /\ r.result.err.type = "IndexError")
            /\ (o.kind = "ok" /\ o.body = Envelope(JsonDumps(JList(<< >>)))) =>
                  (r.result.status = "raise" /\ r.result.err.type = "TypeError")
            /\ (o.kind = "ok" /\ o.body = Envelope(<< "not", " ", "j", "s", "o", "n" >>)) =>
                  (r.result.status = "return" /\ IsParseFailureFallback(r.result.value))
            /\ r.result.status = "raise" =>
                  \/ /\ pc \in { "invoke", "retry" }
                     /\ n >= 2
                     /\ invoked[n - 1] = Call(r.model_id, "raise")
                     /\ invoked[n].status = "running"
                  \/ /\ pc = "done"
                     /\ invoked[n] = Call(r.model_id, "raise")
                     /\ n = Len(CandidateOrder)
            /\ r.result.status = "return" =>
                  /\ pc = "done"
                  /\ invoked[n] = Call(r.model_id, "return")
                  /\ analysis_result = r.result

\* C23 witness: the primary model answered with JSON that is no object and
\* the cascade went on; the next model answered with text that is not JSON
\* and the cascade ended there with the fallback.
C23_Witness ==
    /\ pc = "done"
    /\ Len(invoked) = 2
    /\ e.type = "TypeError"
    /\ invoked[1].status = "raise"
    /\ invoked[2].status = "return"
    /\ LastOutcome(last_invoke).kind = "ok"
    /\ LastOutcome(last_invoke).body = Envelope(<< "not", " ", "j", "s", "o", "n" >>)
    /\ IsParseFailureFallback(analysis_result.value)
    /\ Len(CandidateOrder) > 2

\* ------------------------------------------------------------------------
\* Properties of the notification dispatch
\* ------------------------------------------------------------------------

\* A channel outcome that is a failure: an exception, or a delivery the
\* service turned down
ChannelFailed(n) == n.outcome \in { "raise", "500" }

\* C24: notifications are dispatched only after the analysis has returned,
\* chat first and email second, each channel at most once per webhook; after
\* the chat attempt, whatever its outcome, the next step is the email
\* attempt; and once both were attempted the handler answers 200 with the
\* Assessment, whatever the outcomes of the two channels.
C24_NotificationsIsolated ==
    /\ [](/\ Len(notifications) <= 2
          /\ notifications # << >> =>
                /\ analysis_result.status = "return"
                /\ pc \in { "email", "responded" }
                /\ notifications[1].channel = "chat"
                /\ notifications[1].analysis = analysis_result.value
          /\ pc = "email" => Len(notifications) = 1
          /\ Len(notifications) = 2 =>
                /\ notifications[2].channel = "email"
                /\ notifications[2].analysis = analysis_result.value
                /\ pc = "responded"
          /\ (pc = "responded" /\ notifications # << >>) =>
                /\ Len(notifications) = 2
                /\ response = CreateSuccessResponse(alert_info, analysis_result.value)
                /\ response.statusCode = 200)
    /\ [][/\ notifications' # notifications =>
                /\ analysis_result.status = "return"
                /\ analysis_result' = analysis_result
                /\ Len(notifications') = Len(notifications) + 1
          /\ pc = "email" =>
                /\ pc' = "responded"
                /\ Len(notifications') = 2
                /\ notifications'[2].channel = "email"
                /\ notifications'[1] = notifications[1]]_vars

\* C24 witness: a model answered, the chat dispatch raised, the email was
\* sent all the same, and the handler answered 200 with the Assessment.
C24_Witness ==
    /\ pc = "responded"
    /\ ~CascadeExhausted
    /\ Len(notifications) = 2
    /\ ChannelFailed(notifications[1])
    /\ notifications[1].outcome = "raise"
    /\ notifications[2].outcome = "sent"
    /\ response.statusCode = 200
    /\ response.analysis = analysis_result.value

\* Both channels failed after a model answered, and the answer is still 200.
BothChannelsFailedStill200 ==
    (/\ pc = "responded"
     /\ Len(notifications) = 2
     /\ ChannelFailed(notifications[1])
     /\ notifications[2].outcome = "raise")
        => response.statusCode = 200

====
